---------------------------- MODULE Spec2Model ----------------------------
(***************************************************************************)
(* A model of package net of shyamjvs/utils (src/net/port.go): the         *)
(* LocalPort descriptor, its constructor NewLocalPort, its String method,  *)
(* and openLocalPort with the Closeable it returns.                        *)
(*                                                                         *)
(* Go strings are sequences of one-character strings, so that parsing,     *)
(* quoting and joining are computed character by character.  A Go value    *)
(* that may be nil (a pointer, an error, an interface) is a sequence of    *)
(* length at most one: <<>> is nil and <<v>> is the value v.               *)
(***************************************************************************)
EXTENDS Integers, Sequences, FiniteSets, TLC

nil == <<>>

-----------------------------------------------------------------------------
(* Characters and numbers *)

Digits == <<"0", "1", "2", "3", "4", "5", "6", "7", "8", "9">>

HexDigits == <<"0", "1", "2", "3", "4", "5", "6", "7", "8", "9",
               "a", "b", "c", "d", "e", "f">>

UpperHex == <<"0", "1", "2", "3", "4", "5", "6", "7", "8", "9",
              "A", "B", "C", "D", "E", "F">>

IsDigit(ch) == \E i \in 1..10 : Digits[i] = ch

DigitVal(ch) == (CHOOSE i \in 1..10 : Digits[i] = ch) - 1

IsHex(ch) == \E i \in 1..16 : HexDigits[i] = ch \/ UpperHex[i] = ch

HexVal(ch) == (CHOOSE i \in 1..16 : HexDigits[i] = ch \/ UpperHex[i] = ch) - 1

\* The Go string s as one TLC string.
RECURSIVE Str(_)
Str(s) == IF s = <<>> THEN "" ELSE Head(s) \o Str(Tail(s))

\* bytealg.IndexByteString(s, ch) >= 0
Contains(s, ch) == \E i \in 1..Len(s) : s[i] = ch

\* s[i:] with Go's 0-based i
From(s, i) == SubSeq(s, i + 1, Len(s))

\* strconv.Itoa
RECURSIVE FormatUint(_)
FormatUint(n) ==
    IF n < 10 THEN <<Digits[n + 1]>>
    ELSE FormatUint(n \div 10) \o <<Digits[(n % 10) + 1]>>

Itoa(n) == IF n < 0 THEN <<"-">> \o FormatUint(-n) ELSE FormatUint(n)

\* The largest number dtoi and xtoi read before they report overflow.
big == 16777215

\* net.dtoi: the decimal number s starts with, <<n, digits read, ok>>
RECURSIVE dtoiLoop(_, _, _)
dtoiLoop(s, n, i) ==
    IF i < Len(s) /\ IsDigit(s[i + 1])
    THEN LET m == n * 10 + DigitVal(s[i + 1])
         IN  IF m >= big THEN <<big, i, FALSE>> ELSE dtoiLoop(s, m, i + 1)
    ELSE IF i = 0 THEN <<0, 0, FALSE>> ELSE <<n, i, TRUE>>

dtoi(s) == dtoiLoop(s, 0, 0)

\* net.xtoi: the hexadecimal number s starts with
RECURSIVE xtoiLoop(_, _, _)
xtoiLoop(s, n, i) ==
    IF i < Len(s) /\ IsHex(s[i + 1])
    THEN LET m == n * 16 + HexVal(s[i + 1])
         IN  IF m >= big THEN <<0, i, FALSE>> ELSE xtoiLoop(s, m, i + 1)
    ELSE IF i = 0 THEN <<0, i, FALSE>> ELSE <<n, i, TRUE>>

xtoi(s) == xtoiLoop(s, 0, 0)

-----------------------------------------------------------------------------
(* net.IP: an address is its sequence of 16 bytes *)

IPv4len == 4

IPv6len == 16

v4InV6Prefix == <<0, 0, 0, 0, 0, 0, 0, 0, 0, 0, 255, 255>>

\* net.IPv4(a, b, c, d): the 16-byte form of an IPv4 address
IPv4Addr(p) == v4InV6Prefix \o p

\* net.parseIPv4; p holds the octets read so far
RECURSIVE parseIPv4Loop(_, _)
parseIPv4Loop(s, p) ==
    IF Len(p) = IPv4len
    THEN IF Len(s) # 0 THEN nil ELSE <<IPv4Addr(p)>>
    ELSE IF Len(s) = 0 THEN nil
    ELSE IF Len(p) > 0 /\ s[1] # "." THEN nil
    ELSE LET t == IF Len(p) > 0 THEN Tail(s) ELSE s
             r == dtoi(t)
         IN  IF ~r[3] \/ r[1] > 255 THEN nil
             ELSE parseIPv4Loop(From(t, r[2]), Append(p, r[1]))

parseIPv4(s) == parseIPv4Loop(s, <<>>)

Zeros(n) == [k \in 1..n |-> 0]

\* The end of net.parseIPv6: the string is used up, the ellipsis is expanded.
ExpandEllipsis(s, ip, ellipsis) ==
    IF Len(s) # 0 THEN nil
    ELSE IF Len(ip) < IPv6len
    THEN IF ellipsis < 0 THEN nil
         ELSE <<SubSeq(ip, 1, ellipsis) \o Zeros(IPv6len - Len(ip))
                  \o SubSeq(ip, ellipsis + 1, Len(ip))>>
    ELSE IF ellipsis >= 0 THEN nil ELSE <<ip>>

\* The loop of net.parseIPv6; ip holds the bytes read so far (i = Len(ip)).
RECURSIVE parseIPv6Loop(_, _, _)
parseIPv6Loop(s, ip, ellipsis) ==
    IF Len(ip) >= IPv6len THEN ExpandEllipsis(s, ip, ellipsis)
    ELSE
    LET r == xtoi(s)
        n == r[1]
        c == r[2]
    IN  IF ~r[3] \/ n > 65535 THEN nil
        ELSE IF c < Len(s) /\ s[c + 1] = "."
        THEN \* a trailing IPv4 address
             IF ellipsis < 0 /\ Len(ip) # IPv6len - IPv4len THEN nil
             ELSE IF Len(ip) + IPv4len > IPv6len THEN nil
             ELSE LET ip4 == parseIPv4(s)
                  IN  IF ip4 = nil THEN nil
                      ELSE ExpandEllipsis(<<>>, ip \o SubSeq(ip4[1], 13, 16), ellipsis)
        ELSE LET ip2 == ip \o <<n \div 256, n % 256>>
                 s2  == From(s, c)
             IN  IF Len(s2) = 0 THEN ExpandEllipsis(s2, ip2, ellipsis)
                 ELSE IF s2[1] # ":" \/ Len(s2) = 1 THEN nil
                 ELSE LET s3 == Tail(s2)
                      IN  IF s3[1] = ":"
                          THEN IF ellipsis >= 0 THEN nil
                               ELSE IF Len(s3) = 1
                               THEN ExpandEllipsis(<<>>, ip2, Len(ip2))
                               ELSE parseIPv6Loop(Tail(s3), ip2, Len(ip2))
                          ELSE parseIPv6Loop(s3, ip2, ellipsis)

parseIPv6(s) ==
    IF Len(s) >= 2 /\ s[1] = ":" /\ s[2] = ":"
    THEN IF Len(s) = 2 THEN <<Zeros(IPv6len)>>
         ELSE parseIPv6Loop(From(s, 2), <<>>, 0)
    ELSE parseIPv6Loop(s, <<>>, -1)

\* net.ParseIP: the first '.' or ':' of s decides the form; nil when s is no
\* IP literal.
RECURSIVE ParseIPScan(_, _)
ParseIPScan(s, i) ==
    IF i >= Len(s) THEN nil
    ELSE IF s[i + 1] = "." THEN parseIPv4(s)
    ELSE IF s[i + 1] = ":" THEN parseIPv6(s)
    ELSE ParseIPScan(s, i + 1)

ParseIP(s) == ParseIPScan(s, 0)

\* net.IP.To4 of a 16-byte address: its four bytes, or nil when it is not an
\* IPv4 address (an IPv4-mapped IPv6 address is one).
To4(ip) ==
    IF SubSeq(ip, 1, 12) = v4InV6Prefix THEN <<SubSeq(ip, 13, 16)>> ELSE nil

\* net.JoinHostPort
JoinHostPort(host, port) ==
    IF Contains(host, ":")
    THEN <<"[">> \o host \o <<"]", ":">> \o port
    ELSE host \o <<":">> \o port

\* strconv.Quote, the %q verb, on the characters of the model: a double
\* quote and a backslash are escaped with a backslash.
RECURSIVE QuoteBody(_)
QuoteBody(s) ==
    IF s = <<>> THEN <<>>
    ELSE (IF Head(s) = "\"" \/ Head(s) = "\\"
          THEN <<"\\", Head(s)>> ELSE <<Head(s)>>) \o QuoteBody(Tail(s))

Quote(s) == <<"\"">> \o QuoteBody(s) \o <<"\"">>

-----------------------------------------------------------------------------
(* LocalPort and NewLocalPort *)

IPv4 == <<"4">>

IPv6 == <<"6">>

tcp == <<"t", "c", "p">>

udp == <<"u", "d", "p">>

sctp == <<"s", "c", "t", "p">>

LocalPort(desc, ip, ipFamily, port, protocol) ==
    [Description |-> desc, IP |-> ip, IPFamily |-> ipFamily, Port |-> port,
     Protocol |-> protocol]

\* fmt.Errorf of NewLocalPort's four errors
ErrUnsupportedProtocol(protocol) == "Unsupported protocol " \o Str(protocol)

ErrInvalidIPFamily(ipFamily) == "Invalid IP family " \o Str(ipFamily)

ErrInvalidIP(ip) == "invalid ip address " \o Str(ip)

ErrFamilyMismatch(ip, ipFamily) ==
    "ip address and family mismatch " \o Str(ip) \o ", " \o Str(ipFamily)

\* The check of the address against the family, lines 63 to 72 of
\* NewLocalPort: nil, or the error.
checkIP(ip, ipFamily) ==
    IF ip = <<>> THEN nil
    ELSE IF ParseIP(ip) = nil THEN <<ErrInvalidIP(ip)>>
    ELSE LET asIPv4 == To4(ParseIP(ip)[1])
         IN  IF \/ asIPv4 = nil /\ ipFamily = IPv4
                \/ asIPv4 # nil /\ ipFamily = IPv6
             THEN <<ErrFamilyMismatch(ip, ipFamily)>>
             ELSE nil

\* A NewLocalPort that validates the family before the protocol.
NewLocalPort_familyFirst(desc, ip, ipFamily, port, protocol) ==
    IF ipFamily # <<>> /\ ipFamily # IPv4 /\ ipFamily # IPv6
    THEN [lp |-> nil, err |-> <<ErrInvalidIPFamily(ipFamily)>>]
    ELSE IF protocol # tcp /\ protocol # sctp /\ protocol # udp
    THEN [lp |-> nil, err |-> <<ErrUnsupportedProtocol(protocol)>>]
    ELSE IF checkIP(ip, ipFamily) # nil
    THEN [lp |-> nil, err |-> checkIP(ip, ipFamily)]
    ELSE [lp |-> <<LocalPort(desc, ip, ipFamily, port, protocol)>>, err |-> nil]

\* A NewLocalPort whose mismatch test misses an IPv4 address with family "6".
NewLocalPort_halfMismatch(desc, ip, ipFamily, port, protocol) ==
    IF protocol # tcp /\ protocol # sctp /\ protocol # udp
    THEN [lp |-> nil, err |-> <<ErrUnsupportedProtocol(protocol)>>]
    ELSE IF ipFamily # <<>> /\ ipFamily # IPv4 /\ ipFamily # IPv6
    THEN [lp |-> nil, err |-> <<ErrInvalidIPFamily(ipFamily)>>]
    ELSE IF ip # <<>> /\ ParseIP(ip) = nil
    THEN [lp |-> nil, err |-> <<ErrInvalidIP(ip)>>]
    ELSE IF ip # <<>> /\ To4(ParseIP(ip)[1]) = nil /\ ipFamily = IPv4
    THEN [lp |-> nil, err |-> <<ErrFamilyMismatch(ip, ipFamily)>>]
    ELSE [lp |-> <<LocalPort(desc, ip, ipFamily, port, protocol)>>, err |-> nil]

\* A NewLocalPort without the check of the family tag.
NewLocalPort_noFamilyCheck(desc, ip, ipFamily, port, protocol) ==
    IF protocol # tcp /\ protocol # sctp /\ protocol # udp
    THEN [lp |-> nil, err |-> <<ErrUnsupportedProtocol(protocol)>>]
    ELSE IF checkIP(ip, ipFamily) # nil
    THEN [lp |-> nil, err |-> checkIP(ip, ipFamily)]
    ELSE [lp |-> <<LocalPort(desc, ip, ipFamily, port, protocol)>>, err |-> nil]

\* A NewLocalPort that leaves the family out of the LocalPort it returns.
NewLocalPort_dropsFamily(desc, ip, ipFamily, port, protocol) ==
    IF protocol # tcp /\ protocol # sctp /\ protocol # udp
    THEN [lp |-> nil, err |-> <<ErrUnsupportedProtocol(protocol)>>]
    ELSE IF ipFamily # <<>> /\ ipFamily # IPv4 /\ ipFamily # IPv6
    THEN [lp |-> nil, err |-> <<ErrInvalidIPFamily(ipFamily)>>]
    ELSE IF checkIP(ip, ipFamily) # nil
    THEN [lp |-> nil, err |-> checkIP(ip, ipFamily)]
    ELSE [lp |-> <<LocalPort(desc, ip, <<>>, port, protocol)>>, err |-> nil]

\* A NewLocalPort without the check of the protocol.
NewLocalPort_anyProtocol(desc, ip, ipFamily, port, protocol) ==
    IF ipFamily # <<>> /\ ipFamily # IPv4 /\ ipFamily # IPv6
    THEN [lp |-> nil, err |-> <<ErrInvalidIPFamily(ipFamily)>>]
    ELSE IF checkIP(ip, ipFamily) # nil
    THEN [lp |-> nil, err |-> checkIP(ip, ipFamily)]
    ELSE [lp |-> <<LocalPort(desc, ip, ipFamily, port, protocol)>>, err |-> nil]

\* NewLocalPort: the pair (*LocalPort, error) it returns
NewLocalPort(desc, ip, ipFamily, port, protocol) ==
    IF protocol # tcp /\ protocol # sctp /\ protocol # udp
    THEN [lp |-> nil, err |-> <<ErrUnsupportedProtocol(protocol)>>]
    ELSE IF ipFamily # <<>> /\ ipFamily # IPv4 /\ ipFamily # IPv6
    THEN [lp |-> nil, err |-> <<ErrInvalidIPFamily(ipFamily)>>]
    ELSE IF checkIP(ip, ipFamily) # nil
    THEN [lp |-> nil, err |-> checkIP(ip, ipFamily)]
    ELSE [lp |-> <<LocalPort(desc, ip, ipFamily, port, protocol)>>, err |-> nil]

\* A String that joins host and port with a colon, without net.JoinHostPort.
String_plainJoin(lp) ==
    Quote(lp.Description) \o <<" ", "(">> \o lp.IP \o <<":">> \o Itoa(lp.Port)
      \o <<"/">> \o lp.Protocol \o lp.IPFamily \o <<")">>

\* (*LocalPort).String
String(lp) ==
    LET ipPort == JoinHostPort(lp.IP, Itoa(lp.Port))
    IN  Quote(lp.Description) \o <<" ", "(">> \o ipPort \o <<"/">>
          \o lp.Protocol \o lp.IPFamily \o <<")">>

-----------------------------------------------------------------------------
(* The operating system's sockets, as package net reaches them *)

\* net.SplitHostPort: [ok, host, port]
Index(s, ch) ==
    IF Contains(s, ch)
    THEN CHOOSE i \in 1..Len(s) : s[i] = ch /\ \A j \in 1..(i - 1) : s[j] # ch
    ELSE 0

LastIndex(s, ch) ==
    IF Contains(s, ch)
    THEN CHOOSE i \in 1..Len(s) : s[i] = ch /\ \A j \in (i + 1)..Len(s) : s[j] # ch
    ELSE 0

SplitHostPort(hostport) ==
    LET i    == LastIndex(hostport, ":")
        bad  == [ok |-> FALSE, host |-> <<>>, port |-> <<>>]
        port == SubSeq(hostport, i + 1, Len(hostport))
    IN  IF i = 0 THEN bad
        ELSE IF hostport[1] = "["
        THEN LET end == Index(hostport, "]")
             IN  IF end = 0 \/ end + 1 # i THEN bad
                 ELSE IF Contains(Tail(hostport), "[")
                         \/ Contains(SubSeq(hostport, end + 1, Len(hostport)), "]")
                 THEN bad
                 ELSE [ok |-> TRUE, host |-> SubSeq(hostport, 2, end - 1), port |-> port]
        ELSE LET host == SubSeq(hostport, 1, i - 1)
             IN  IF Contains(host, ":") \/ Contains(hostport, "[")
                    \/ Contains(hostport, "]")
                 THEN bad
                 ELSE [ok |-> TRUE, host |-> host, port |-> port]

\* net.parsePort: [port, needsLookup]; a leading sign, then decimal digits
parsePort(service) ==
    IF service = <<>> THEN [port |-> 0, needsLookup |-> FALSE]
    ELSE LET neg  == service[1] = "-"
             body == IF service[1] = "+" \/ service[1] = "-" THEN Tail(service)
                     ELSE service
             r    == dtoi(body)
         IN  IF \E k \in 1..Len(body) : ~IsDigit(body[k])
             THEN [port |-> 0, needsLookup |-> TRUE]
             ELSE IF body = <<>> THEN [port |-> 0, needsLookup |-> FALSE]
             ELSE [port |-> IF neg THEN -r[1] ELSE r[1], needsLookup |-> FALSE]

\* The errors of package net, each named by its cause.
EADDRINUSE == "bind: address already in use"

ErrUnknownNetwork(network) == "unknown network " \o Str(network)

ErrInvalidPort == "invalid port"

ErrMissingPort == "missing port in address"

ErrNoSuchHost == "no such host"

ErrNoSuitableAddress == "no suitable address found"

\* What a host name that is no IP literal may resolve to.
loopback == <<"1", "2", "7", ".", "0", ".", "0", ".", "1">>

ResolvedHosts == {ParseIP(loopback)[1]}

\* The resolution of (network, "host:port") for a listener of protocol base,
\* net.Resolver.internetAddrList: the set of results [err, stack, addr, port]
\* it may return.  addr is <<>> for the wildcard address; stack is "4", "6",
\* or "dual" for the wildcard of a network without a family.
ResolveAddr(base, network, hostPort) ==
    LET fail(e) == {[err |-> <<e>>, stack |-> "", addr |-> <<>>, port |-> 0]}
        family  == From(network, Len(base))
        hp      == SplitHostPort(hostPort)
        pp      == parsePort(hp.port)
        addrs   == IF ParseIP(hp.host) # nil THEN {ParseIP(hp.host)[1]}
                   ELSE ResolvedHosts
        fit     == {a \in addrs : \/ family = <<>>
                                  \/ family = IPv4 /\ To4(a) # nil
                                  \/ family = IPv6 /\ To4(a) = nil}
    IN  IF network # base /\ network # base \o IPv4 /\ network # base \o IPv6
        THEN fail(ErrUnknownNetwork(network))
        ELSE IF ~hp.ok THEN fail(ErrMissingPort)
        ELSE IF pp.needsLookup \/ pp.port < 0 \/ pp.port > 65535
        THEN fail(ErrInvalidPort)
        ELSE IF hp.host = <<>>
        THEN {[err |-> nil, addr |-> <<>>, port |-> pp.port,
               stack |-> IF family = <<>> THEN "dual" ELSE family[1]]}
        ELSE (IF ParseIP(hp.host) = nil THEN fail(ErrNoSuchHost) ELSE {})
             \cup (IF fit = {} THEN fail(ErrNoSuitableAddress) ELSE {})
             \cup {[err |-> nil, addr |-> a, port |-> pp.port,
                    stack |-> IF To4(a) # nil THEN "4" ELSE "6"] : a \in fit}

\* The ports the kernel chooses from for port 0.
NumEphemeral == 2

EphemeralPorts == 32768..(32768 + NumEphemeral - 1)

\* Two listeners of the same protocol and port on the same address: the
\* second bind is refused on every platform.
SameEndpoint(s, proto, a, port) ==
    s.proto = proto /\ s.port = port /\ s.stack = a.stack /\ s.addr = a.addr

\* Two listeners whose addresses overlap (a wildcard and an address, a
\* dual-stack wildcard and a single-stack one): refused or not by platform.
Overlaps(s, proto, a, port) ==
    /\ s.proto = proto /\ s.port = port
    /\ s.stack = a.stack \/ s.stack = "dual" \/ a.stack = "dual"
    /\ s.addr = a.addr \/ s.addr = <<>> \/ a.addr = <<>>

\* The smallest descriptor number no socket of the table has.
NewFd(table) ==
    CHOOSE n \in 1..(Cardinality(table) + 1) :
        /\ \A s \in table : s.fd # n
        /\ \A m \in 1..(n - 1) : \E s \in table : s.fd = m

\* socket, bind and listen for the resolved address a: the set of results
\* [err, sock, os]; the table is unchanged when the bind is refused.
Bind(proto, a, table) ==
    LET refused == [err |-> <<EADDRINUSE>>, sock |-> nil, os |-> table]
        bound(p) == LET fd == NewFd(table)
                    IN  [err |-> nil, sock |-> <<fd>>,
                         os |-> table \cup {[fd |-> fd, proto |-> proto,
                                             stack |-> a.stack, addr |-> a.addr,
                                             port |-> p]}]
        free == {p \in EphemeralPorts :
                    \A s \in table : ~Overlaps(s, proto, a, p)}
    IN  IF a.port = 0
        THEN IF free = {} THEN {refused} ELSE {bound(p) : p \in free}
        ELSE IF \E s \in table : SameEndpoint(s, proto, a, a.port)
        THEN {refused}
        ELSE IF \E s \in table : Overlaps(s, proto, a, a.port)
        THEN {refused, bound(a.port)}
        ELSE {bound(a.port)}

\* net.Listen(network, hostPort) for tcp
Listen(network, hostPort, table) ==
    UNION {IF a.err # nil THEN {[err |-> a.err, sock |-> nil, os |-> table]}
           ELSE Bind("tcp", a, table) : a \in ResolveAddr(tcp, network, hostPort)}

\* net.ResolveUDPAddr(network, hostPort)
ResolveUDPAddr(network, hostPort) == ResolveAddr(udp, network, hostPort)

\* net.ListenUDP(network, addr)
ListenUDP(network, addr, table) == Bind("udp", addr, table)

\* fmt.Errorf("unknown protocol %q", lp.Protocol)
ErrUnknownProtocol(protocol) == "unknown protocol " \o Str(Quote(protocol))

\* The tcp case of openLocalPort: net.Listen, its error returned as it is.
\* Each result is [socket, err, os]: the pair (Closeable, error) and the
\* socket table after the call.
openTCP(network, hostPort, table) ==
    {IF r.err # nil
     THEN [socket |-> nil, err |-> r.err, os |-> r.os]
     ELSE [socket |-> r.sock, err |-> nil, os |-> r.os]
       : r \in Listen(network, hostPort, table)}

\* A udp case that returns before socket = conn: the connection is open and
\* the caller is handed no Closeable.
openUDP_dropsConn(network, hostPort, table) ==
    UNION {IF addr.err # nil
           THEN {[socket |-> nil, err |-> addr.err, os |-> table]}
           ELSE {IF r.err # nil
                 THEN [socket |-> nil, err |-> r.err, os |-> r.os]
                 ELSE [socket |-> nil, err |-> nil, os |-> r.os]
                   : r \in ListenUDP(network, addr, table)}
             : addr \in ResolveUDPAddr(network, hostPort)}

\* The udp case of openLocalPort: net.ResolveUDPAddr, then net.ListenUDP.
openUDP(network, hostPort, table) ==
    UNION {IF addr.err # nil
           THEN {[socket |-> nil, err |-> addr.err, os |-> table]}
           ELSE {IF r.err # nil
                 THEN [socket |-> nil, err |-> r.err, os |-> r.os]
                 ELSE [socket |-> r.sock, err |-> nil, os |-> r.os]
                   : r \in ListenUDP(network, addr, table)}
             : addr \in ResolveUDPAddr(network, hostPort)}

\* An openLocalPort whose sctp case listens as the tcp case does.
openLocalPort_sctpBinds(lp, table) ==
    LET network  == lp.Protocol \o lp.IPFamily
        hostPort == JoinHostPort(lp.IP, Itoa(lp.Port))
    IN  IF lp.Protocol = tcp THEN openTCP(network, hostPort, table)
        ELSE IF lp.Protocol = udp THEN openUDP(network, hostPort, table)
        ELSE IF lp.Protocol = sctp
        THEN openTCP(tcp \o lp.IPFamily, hostPort, table)
        ELSE {[socket |-> nil, err |-> <<ErrUnknownProtocol(lp.Protocol)>>,
               os |-> table]}

\* An openLocalPort that does not return the error of the tcp and udp cases:
\* a refused open reports success.
openLocalPort_ignoresErr(lp, table) ==
    LET network  == lp.Protocol \o lp.IPFamily
        hostPort == JoinHostPort(lp.IP, Itoa(lp.Port))
        noErr(R) == {[r EXCEPT !.err = nil] : r \in R}
    IN  IF lp.Protocol = tcp THEN noErr(openTCP(network, hostPort, table))
        ELSE IF lp.Protocol = udp THEN noErr(openUDP(network, hostPort, table))
        ELSE IF lp.Protocol = sctp
        THEN {[socket |-> nil, err |-> nil, os |-> table]}
        ELSE {[socket |-> nil, err |-> <<ErrUnknownProtocol(lp.Protocol)>>,
               os |-> table]}

\* An openLocalPort that keeps the sockets it opened and, when the address is
\* in use, hands out the socket that holds it.
openLocalPort_reuse(lp, table) ==
    LET network  == lp.Protocol \o lp.IPFamily
        hostPort == JoinHostPort(lp.IP, Itoa(lp.Port))
        shared(R) ==
            UNION {IF r.err = <<EADDRINUSE>>
                   THEN {[socket |-> <<s.fd>>, err |-> nil, os |-> table]
                           : s \in {t \in table : t.proto = Str(lp.Protocol)
                                                  /\ t.port = lp.Port}}
                   ELSE {r} : r \in R}
    IN  IF lp.Protocol = tcp THEN shared(openTCP(network, hostPort, table))
        ELSE IF lp.Protocol = udp THEN shared(openUDP(network, hostPort, table))
        ELSE IF lp.Protocol = sctp
        THEN {[socket |-> nil, err |-> nil, os |-> table]}
        ELSE {[socket |-> nil, err |-> <<ErrUnknownProtocol(lp.Protocol)>>,
               os |-> table]}

\* openLocalPort: the set of results [socket, err, os] it may return from
\* the socket table `table`.
openLocalPort(lp, table) ==
    LET network  == lp.Protocol \o lp.IPFamily
        hostPort == JoinHostPort(lp.IP, Itoa(lp.Port))
    IN  IF lp.Protocol = tcp THEN openTCP(network, hostPort, table)
        ELSE IF lp.Protocol = udp THEN openUDP(network, hostPort, table)
        ELSE IF lp.Protocol = sctp
        THEN {[socket |-> nil, err |-> nil, os |-> table]}
        ELSE {[socket |-> nil, err |-> <<ErrUnknownProtocol(lp.Protocol)>>,
               os |-> table]}

\* Closeable.Close on a listener: its socket leaves the table.
CloseSocket(fd, table) == {s \in table : s.fd # fd}

-----------------------------------------------------------------------------
(* The inputs *)

\* The cases of TestLocalPortString: the arguments, the string expected, and
\* whether an error is expected.
testCases ==
    <<[description |-> <<"I", "P", "v", "4", " ", "U", "D", "P">>,
       ip |-> <<"1", ".", "2", ".", "3", ".", "4">>, family |-> <<>>,
       port |-> 9999, protocol |-> <<"u", "d", "p">>,
       expectedStr |-> "\"IPv4 UDP\" (1.2.3.4:9999/udp)",
       expectedErr |-> FALSE],
      [description |-> <<"I", "P", "v", "4", " ", "T", "C", "P">>,
       ip |-> <<"5", ".", "6", ".", "7", ".", "8">>, family |-> <<>>,
       port |-> 1053, protocol |-> <<"t", "c", "p">>,
       expectedStr |-> "\"IPv4 TCP\" (5.6.7.8:1053/tcp)",
       expectedErr |-> FALSE],
      [description |-> <<"I", "P", "v", "6", " ", "T", "C", "P">>,
       ip |-> <<"2", "0", "0", "1", ":", "d", "b", "8", ":", ":", "1">>, family |-> <<>>,
       port |-> 80, protocol |-> <<"t", "c", "p">>,
       expectedStr |-> "\"IPv6 TCP\" ([2001:db8::1]:80/tcp)",
       expectedErr |-> FALSE],
      [description |-> <<"I", "P", "v", "4", " ", "S", "C", "T", "P">>,
       ip |-> <<"9", ".", "1", "0", ".", "1", "1", ".", "1", "2">>, family |-> <<>>,
       port |-> 7777, protocol |-> <<"s", "c", "t", "p">>,
       expectedStr |-> "\"IPv4 SCTP\" (9.10.11.12:7777/sctp)",
       expectedErr |-> FALSE],
      [description |-> <<"I", "P", "v", "6", " ", "S", "C", "T", "P">>,
       ip |-> <<"2", "0", "0", "1", ":", "d", "b", "8", ":", ":", "2">>, family |-> <<>>,
       port |-> 80, protocol |-> <<"s", "c", "t", "p">>,
       expectedStr |-> "\"IPv6 SCTP\" ([2001:db8::2]:80/sctp)",
       expectedErr |-> FALSE],
      [description |-> <<"I", "P", "v", "4", " ", "T", "C", "P", ",", " ", "a", "l", "l", " ", "a", "d", "d", "r", "e", "s", "s", "e", "s">>,
       ip |-> <<>>, family |-> <<"4">>,
       port |-> 1053, protocol |-> <<"t", "c", "p">>,
       expectedStr |-> "\"IPv4 TCP, all addresses\" (:1053/tcp4)",
       expectedErr |-> FALSE],
      [description |-> <<"I", "P", "v", "6", " ", "T", "C", "P", ",", " ", "a", "l", "l", " ", "a", "d", "d", "r", "e", "s", "s", "e", "s">>,
       ip |-> <<>>, family |-> <<"6">>,
       port |-> 80, protocol |-> <<"t", "c", "p">>,
       expectedStr |-> "\"IPv6 TCP, all addresses\" (:80/tcp6)",
       expectedErr |-> FALSE],
      [description |-> <<"N", "o", " ", "i", "p", " ", "f", "a", "m", "i", "l", "y", " ", "T", "C", "P", ",", " ", "a", "l", "l", " ", "a", "d", "d", "r", "e", "s", "s", "e", "s">>,
       ip |-> <<>>, family |-> <<>>,
       port |-> 80, protocol |-> <<"t", "c", "p">>,
       expectedStr |-> "\"No ip family TCP, all addresses\" (:80/tcp)",
       expectedErr |-> FALSE],
      [description |-> <<"I", "P", " ", "f", "a", "m", "i", "l", "y", " ", "m", "i", "s", "m", "a", "t", "c", "h">>,
       ip |-> <<"2", "0", "0", "1", ":", "d", "b", "8", ":", ":", "2">>, family |-> <<"4">>,
       port |-> 80, protocol |-> <<"s", "c", "t", "p">>,
       expectedStr |-> "",
       expectedErr |-> TRUE],
      [description |-> <<"I", "P", " ", "f", "a", "m", "i", "l", "y", " ", "m", "i", "s", "m", "a", "t", "c", "h">>,
       ip |-> <<"1", ".", "2", ".", "3", ".", "4">>, family |-> <<"6">>,
       port |-> 80, protocol |-> <<"s", "c", "t", "p">>,
       expectedStr |-> "",
       expectedErr |-> TRUE],
      [description |-> <<"U", "n", "s", "u", "p", "p", "o", "r", "t", "e", "d", " ", "p", "r", "o", "t", "o", "c", "o", "l">>,
       ip |-> <<"2", "0", "0", "1", ":", "d", "b", "8", ":", ":", "2">>, family |-> <<>>,
       port |-> 80, protocol |-> <<"h", "t", "t", "p">>,
       expectedStr |-> "",
       expectedErr |-> TRUE],
      [description |-> <<"I", "n", "v", "a", "l", "i", "d", " ", "I", "P">>,
       ip |-> <<"3", "0", "0">>, family |-> <<>>,
       port |-> 80, protocol |-> <<"t", "c", "p">>,
       expectedStr |-> "",
       expectedErr |-> TRUE],
      [description |-> <<"I", "n", "v", "a", "l", "i", "d", " ", "i", "p", " ", "f", "a", "m", "i", "l", "y">>,
       ip |-> <<>>, family |-> <<"5">>,
       port |-> 80, protocol |-> <<"t", "c", "p">>,
       expectedStr |-> "",
       expectedErr |-> TRUE]>>

Args(desc, ip, ipFamily, port, protocol) ==
    [desc |-> desc, ip |-> ip, ipFamily |-> ipFamily, port |-> port,
     protocol |-> protocol]

TestArgs ==
    {Args(testCases[i].description, testCases[i].ip, testCases[i].family,
          testCases[i].port, testCases[i].protocol) : i \in 1..Len(testCases)}

\* Descriptions: every string of at most MaxDescLen of these characters.
MaxDescLen == 2

DescChars == {"a", "\"", "\\"}

Descriptions == UNION {[1..n -> DescChars] : n \in 0..MaxDescLen}

PureIPs ==
    {<<>>,
     <<"1", ".", "2", ".", "3", ".", "4">>,
     <<"2", "0", "0", "1", ":", "d", "b", "8", ":", ":", "1">>,
     <<":", ":", "f", "f", "f", "f", ":", "1", ".", "2", ".", "3", ".", "4">>,
     <<"3", "0", "0">>,
     <<"1", ".", "2", ".", "3", ".", "2", "5", "6">>,
     <<"1", ":", "2">>}

PureFamilies ==
    {<<>>,
     <<"4">>,
     <<"6">>,
     <<"5">>,
     <<"v", "6">>}

PureProtocols ==
    {<<"t", "c", "p">>,
     <<"u", "d", "p">>,
     <<"s", "c", "t", "p">>,
     <<"T", "C", "P">>,
     <<"h", "t", "t", "p">>,
     <<>>}

PurePorts == {-1, 0, 80, 65536}

\* The arguments NewLocalPort is called with where only it and String run:
\* those of TestLocalPortString, every address, family, port and protocol
\* above with one description, and every description with an address, a
\* family and a protocol of each kind.
PureArgs ==
    TestArgs
    \cup {Args(<<"a">>, i, f, p, pr) : i \in PureIPs, f \in PureFamilies,
                                      p \in PurePorts, pr \in PureProtocols}
    \cup {Args(d, i, f, 80, pr) :
            d \in Descriptions,
            i \in {<<>>, <<"3", "0", "0">>,
                   <<"2", "0", "0", "1", ":", "d", "b", "8", ":", ":", "1">>},
            f \in {<<>>, <<"6">>, <<"5">>},
            pr \in {<<"u", "d", "p">>, <<"T", "C", "P">>}}

http == <<"h", "t", "t", "p">>

notIP == <<"3", "0", "0">>

OsIPs == {<<>>, loopback}

OsFamilies == {<<>>, IPv4, IPv6}

OsPorts == {0, 8080, 70000}

\* The arguments NewLocalPort is called with where ports are opened.
OsArgs ==
    {Args(<<"a">>, i, f, p, pr) : i \in OsIPs, f \in OsFamilies, p \in OsPorts,
                                  pr \in {tcp, udp, sctp, http}}

\* LocalPort values written as struct literals, which NewLocalPort has not
\* validated (the fields of LocalPort are exported).
Literals ==
    {LocalPort(<<"a">>, <<>>, <<>>, 8080, http),
     LocalPort(<<"a">>, loopback, <<>>, 8080, <<"T", "C", "P">>),
     LocalPort(<<"a">>, notIP, <<>>, 8080, tcp),
     LocalPort(<<"a">>, notIP, <<"5">>, 70000, sctp),
     LocalPort(<<"a">>, <<>>, <<"5">>, 8080, tcp),
     LocalPort(<<"a">>, <<":", ":", "1">>, IPv4, 8080, udp)}

-----------------------------------------------------------------------------
(* The state machine: callers that construct, render, open and release *)

Callers == {"c1", "c2"}

VARIABLES
    os,        \* the operating system's table of listening sockets
    pc,        \* each caller's position: "start", "failed" (NewLocalPort
               \* returned an error), "ready", "open", "panic"
    call,      \* the arguments of the caller's NewLocalPort call, nil if none
    lp,        \* the caller's *LocalPort, nil if none
    err,       \* the error the caller's last call returned
    socket,    \* the Closeable the caller's open returned
    str,       \* what String() returned for the caller's descriptor
    rejected,  \* whether an open of the caller's descriptor found it in use
    last       \* the last successful open: who made it, of which LocalPort,
               \* the socket table before it, whether its socket has been
               \* closed since, and how many such round trips of that
               \* LocalPort the caller has made in a row; nil once another
               \* caller has changed the table

vars == <<os, pc, call, lp, err, socket, str, rejected, last>>

Init ==
    /\ os = {}
    /\ pc = [c \in Callers |-> "start"]
    /\ call = [c \in Callers |-> nil]
    /\ lp = [c \in Callers |-> nil]
    /\ err = [c \in Callers |-> nil]
    /\ socket = [c \in Callers |-> nil]
    /\ str = [c \in Callers |-> nil]
    /\ rejected = [c \in Callers |-> FALSE]
    /\ last = nil

\* lp, err := NewLocalPort(a.desc, a.ip, a.ipFamily, a.port, a.protocol)
NewLocalPortCall(c, a) ==
    /\ pc[c] = "start"
    /\ LET r == NewLocalPort(a.desc, a.ip, a.ipFamily, a.port, a.protocol)
       IN  /\ lp' = [lp EXCEPT ![c] = r.lp]
           /\ err' = [err EXCEPT ![c] = r.err]
           /\ pc' = [pc EXCEPT ![c] = IF r.err = nil THEN "ready" ELSE "failed"]
    /\ call' = [call EXCEPT ![c] = <<a>>]
    /\ UNCHANGED <<os, socket, str, rejected>>

\* lp := &LocalPort{...}
Literal(c, d) ==
    /\ pc[c] = "start"
    /\ lp' = [lp EXCEPT ![c] = <<d>>]
    /\ err' = [err EXCEPT ![c] = nil]
    /\ call' = [call EXCEPT ![c] = nil]
    /\ pc' = [pc EXCEPT ![c] = "ready"]
    /\ UNCHANGED <<os, socket, str, rejected>>

\* str := lp.String()
Render(c) ==
    /\ pc[c] = "ready"
    /\ str' = [str EXCEPT ![c] = <<String(lp[c][1])>>]
    /\ UNCHANGED <<os, pc, call, lp, err, socket, rejected>>

\* socket, err := (&listenPortOpener{}).OpenLocalPort(lp)
OpenLocalPort(c) ==
    /\ pc[c] = "ready"
    /\ \E r \in openLocalPort(lp[c][1], os) :
         /\ os' = r.os
         /\ socket' = [socket EXCEPT ![c] = r.socket]
         /\ err' = [err EXCEPT ![c] = r.err]
         /\ pc' = [pc EXCEPT ![c] = IF r.err = nil THEN "open" ELSE "ready"]
         /\ rejected' = [rejected EXCEPT ![c] = @ \/ r.err = <<EADDRINUSE>>]
    /\ UNCHANGED <<call, lp, str>>

\* err := socket.Close().  A call on a nil interface value panics.
Close(c) ==
    /\ pc[c] = "open"
    /\ IF socket[c] = nil
       THEN /\ pc' = [pc EXCEPT ![c] = "panic"]
            /\ UNCHANGED <<os, socket, err>>
       ELSE /\ os' = CloseSocket(socket[c][1], os)
            /\ socket' = [socket EXCEPT ![c] = nil]
            /\ err' = [err EXCEPT ![c] = nil]
            /\ pc' = [pc EXCEPT ![c] = "ready"]
    /\ UNCHANGED <<call, lp, str, rejected>>

\* The caller lets go of its descriptor: one it holds no handle for, or whose
\* open returned no handle; or it recovers from the panic.
Drop(c) ==
    /\ \/ pc[c] \in {"failed", "ready", "panic"}
       \/ pc[c] = "open" /\ socket[c] = nil
    /\ pc' = [pc EXCEPT ![c] = "start"]
    /\ call' = [call EXCEPT ![c] = nil]
    /\ lp' = [lp EXCEPT ![c] = nil]
    /\ err' = [err EXCEPT ![c] = nil]
    /\ socket' = [socket EXCEPT ![c] = nil]
    /\ str' = [str EXCEPT ![c] = nil]
    /\ rejected' = [rejected EXCEPT ![c] = FALSE]
    /\ UNCHANGED os

\* Callers opening and releasing ports.
Next ==
    \E c \in Callers :
        \/ \E a \in OsArgs : NewLocalPortCall(c, a) /\ UNCHANGED last
        \/ \E d \in Literals : Literal(c, d) /\ UNCHANGED last
        \/ OpenLocalPort(c) /\ UNCHANGED last
        \/ Close(c) /\ UNCHANGED last
        \/ Drop(c) /\ UNCHANGED last

Spec == Init /\ [][Next]_vars

\* One caller constructing and rendering descriptors.
NextPure ==
    \/ \E a \in PureArgs : NewLocalPortCall("c1", a) /\ UNCHANGED last
    \/ Render("c1") /\ UNCHANGED last
    \/ Drop("c1") /\ UNCHANGED last

SpecPure == Init /\ [][NextPure]_vars

-----------------------------------------------------------------------------
(* Round trips: construct, open, release, with the history of the last one *)

\* The round trips last counts, and no further.
MaxRounds == 2

\* The arguments NewLocalPort is called with where round trips are counted.
RoundTripArgs ==
    {Args(<<"a">>, i, <<>>, p, pr) : i \in OsIPs, p \in OsPorts,
                                     pr \in {tcp, udp, sctp}}

\* A caller other than the one last names has changed the socket table.
Intervened(c) == last # nil /\ last[1].who # c /\ os' # os

\* last after caller c's NewLocalPort: kept for the same descriptor.
TrackNew(c) ==
    last' = IF last # nil /\ last[1].who = c /\ lp'[c] # <<last[1].lp>>
            THEN nil ELSE last

\* last after caller c's open: a round trip starts when it succeeded.
TrackOpen(c) ==
    last' = IF pc'[c] = "open"
            THEN <<[who |-> c, lp |-> lp[c][1], before |-> os, done |-> FALSE,
                    rounds |-> IF last # nil /\ last[1].who = c /\ last[1].done
                                  /\ last[1].lp = lp[c][1]
                               THEN last[1].rounds ELSE 0]>>
            ELSE last

\* last after caller c's Close: the round trip is done when Close returned.
TrackClose(c) ==
    last' = IF Intervened(c) THEN nil
            ELSE IF last # nil /\ last[1].who = c
            THEN IF pc'[c] = "ready" /\ ~last[1].done
                 THEN <<[last[1] EXCEPT
                           !.done = TRUE,
                           !.rounds = IF @ < MaxRounds THEN @ + 1 ELSE @]>>
                 ELSE nil
            ELSE last

\* last after caller c dropped its descriptor: a round trip left open ends.
TrackDrop(c) ==
    last' = IF last # nil /\ last[1].who = c /\ ~last[1].done THEN nil ELSE last

NextRoundTrip ==
    \E c \in Callers :
        \/ \E a \in RoundTripArgs : NewLocalPortCall(c, a) /\ TrackNew(c)
        \/ OpenLocalPort(c) /\ TrackOpen(c)
        \/ Close(c) /\ TrackClose(c)
        \/ Drop(c) /\ TrackDrop(c)

SpecRoundTrip == Init /\ [][NextRoundTrip]_vars

-----------------------------------------------------------------------------
(* The claims *)

Supported == {tcp, udp, sctp}

\* The address is IPv4 as NewLocalPort decides it: it parses and To4 is not
\* nil (an IPv4-mapped IPv6 literal is IPv4); IPv6 is every other address.
AddrIsIPv4(ip) == ParseIP(ip) # nil /\ To4(ParseIP(ip)[1]) # nil

AddrIsIPv6(ip) == ParseIP(ip) # nil /\ To4(ParseIP(ip)[1]) = nil

\* The caller's NewLocalPort call has returned.
Called(c) == call[c] # nil

\* C1: whenever the protocol argument is not exactly "tcp", "udp" or "sctp",
\* NewLocalPort returns the error "Unsupported protocol <protocol>" and no
\* descriptor, whatever the other arguments are.
C1_UnsupportedProtocol ==
    \A c \in Callers :
        Called(c) /\ call[c][1].protocol \notin Supported
        => /\ err[c] = <<"Unsupported protocol " \o Str(call[c][1].protocol)>>
           /\ lp[c] = nil

\* C1's case: an unsupported protocol together with an invalid family tag and
\* an invalid address.
C1_Witness ==
    \E c \in Callers :
        /\ Called(c)
        /\ call[c][1].protocol = <<"T", "C", "P">>
        /\ call[c][1].ipFamily = <<"5">>
        /\ call[c][1].ip = notIP
        /\ err[c] = <<"Unsupported protocol TCP">>

\* The address and the family of the call contradict each other.
Mismatched(a) ==
    \/ AddrIsIPv4(a.ip) /\ a.ipFamily = IPv6
    \/ AddrIsIPv6(a.ip) /\ a.ipFamily = IPv4

MismatchReturned(c) ==
    /\ err[c] = <<"ip address and family mismatch " \o Str(call[c][1].ip)
                    \o ", " \o Str(call[c][1].ipFamily)>>
    /\ lp[c] = nil

\* C2 as stated: for every IPv4 address with family "6" and every IPv6
\* address with family "4", NewLocalPort returns the mismatch error and no
\* descriptor (whatever the protocol).
C2_Original ==
    \A c \in Callers :
        Called(c) /\ Mismatched(call[c][1]) => MismatchReturned(c)

\* C2 as amended: the same, given a supported protocol.
C2_FamilyMismatch ==
    \A c \in Callers :
        Called(c) /\ Mismatched(call[c][1])
        /\ call[c][1].protocol \in Supported
        => MismatchReturned(c)

\* C2's case: an IPv4-mapped IPv6 literal, which is IPv4, with family "6".
C2_Witness ==
    \E c \in Callers :
        /\ Called(c)
        /\ Contains(call[c][1].ip, ":") /\ AddrIsIPv4(call[c][1].ip)
        /\ call[c][1].ipFamily = IPv6
        /\ call[c][1].protocol = sctp
        /\ MismatchReturned(c)

InvalidFamilyReturned(c) ==
    /\ err[c] = <<"Invalid IP family " \o Str(call[c][1].ipFamily)>>
    /\ lp[c] = nil

\* C3 as stated: for every family tag other than "", "4" and "6",
\* NewLocalPort returns the invalid-family error and no descriptor (whatever
\* the protocol).
C3_Original ==
    \A c \in Callers :
        Called(c) /\ call[c][1].ipFamily \notin {<<>>, <<"4">>, <<"6">>}
        => InvalidFamilyReturned(c)

\* C3 as amended: the same, given a supported protocol.
C3_InvalidFamily ==
    \A c \in Callers :
        Called(c) /\ call[c][1].ipFamily \notin {<<>>, <<"4">>, <<"6">>}
        /\ call[c][1].protocol \in Supported
        => InvalidFamilyReturned(c)

\* C3's case: an invalid family tag with an address that is invalid too.
C3_Witness ==
    \E c \in Callers :
        /\ Called(c)
        /\ call[c][1].ipFamily = <<"v", "6">>
        /\ call[c][1].ip = notIP
        /\ call[c][1].protocol = udp
        /\ InvalidFamilyReturned(c)

\* A valid pair of address and family that agree.
Consistent(a) ==
    /\ a.ipFamily \in {<<>>, <<"4">>, <<"6">>}
    /\ \/ a.ip = <<>>
       \/ ParseIP(a.ip) # nil /\ a.ipFamily = <<>>
       \/ AddrIsIPv4(a.ip) /\ a.ipFamily = <<"4">>
       \/ AddrIsIPv6(a.ip) /\ a.ipFamily = <<"6">>

\* C4: for a supported protocol and a valid (address, family) pair that
\* agrees (or no family, or no address), NewLocalPort returns no error and a
\* descriptor whose five fields are the arguments.
C4_Constructs ==
    \A c \in Callers :
        Called(c) /\ pc[c] \in {"failed", "ready"}
        /\ call[c][1].protocol \in Supported /\ Consistent(call[c][1])
        => /\ pc[c] = "ready"
           /\ err[c] = nil
           /\ lp[c] = <<[Description |-> call[c][1].desc,
                         IP |-> call[c][1].ip,
                         IPFamily |-> call[c][1].ipFamily,
                         Port |-> call[c][1].port,
                         Protocol |-> call[c][1].protocol]>>

\* C4's case: an IPv6 address with family "6" and a port out of range,
\* constructed.
C4_Witness ==
    \E c \in Callers :
        /\ Called(c) /\ pc[c] = "ready"
        /\ AddrIsIPv6(call[c][1].ip) /\ call[c][1].ipFamily = IPv6
        /\ call[c][1].port = 65536
        /\ lp[c][1].Description = <<"a">>
        /\ lp[c][1].Port = 65536
        /\ lp[c][1].IPFamily = <<"6">>

\* The host of host:port as the claim describes it: the address in square
\* brackets when it contains a colon, the address itself otherwise.
HostOf(ip) == IF Contains(ip, ":") THEN <<"[">> \o ip \o <<"]">> ELSE ip

\* "(" host ":" port "/" protocol family ")" of a descriptor
Token(d) ==
    <<"(">> \o HostOf(d.IP) \o <<":">> \o Itoa(d.Port) \o <<"/">> \o d.Protocol
      \o d.IPFamily \o <<")">>

\* The description holds no character that %q escapes.
Plain(desc) == ~Contains(desc, "\"") /\ ~Contains(desc, "\\")

\* The case of TestLocalPortString with the arguments of the call, if any.
TestCaseOf(a) ==
    {i \in 1..Len(testCases) :
        /\ testCases[i].description = a.desc /\ testCases[i].ip = a.ip
        /\ testCases[i].family = a.ipFamily /\ testCases[i].port = a.port
        /\ testCases[i].protocol = a.protocol}

\* C5 as stated: String() of a constructed descriptor is the description
\* between two double quotes, a space, and the token (host:port/protocol
\* followed by the family when one was set).
C5_Original ==
    \A c \in Callers :
        Called(c) /\ str[c] # nil
        => str[c][1] = <<"\"">> \o lp[c][1].Description \o <<"\"", " ">>
                         \o Token(lp[c][1])

\* C5 as amended: the description is rendered as %q renders it, a
\* double-quoted Go string literal in which a double quote and a backslash
\* are escaped by a backslash; for a description with neither this is the
\* description between two double quotes.  The rest is as stated, and the
\* strings TestLocalPortString expects are the ones returned.
C5_String ==
    \A c \in Callers :
        Called(c) /\ str[c] # nil
        => LET d == lp[c][1]
               s == str[c][1]
               n == Len(s) - Len(Token(d))
           IN  /\ n >= 3
               /\ SubSeq(s, n + 1, Len(s)) = Token(d)
               /\ s[1] = "\"" /\ s[n - 1] = "\"" /\ s[n] = " "
               /\ Plain(d.Description) => SubSeq(s, 2, n - 2) = d.Description
               /\ LET q == SubSeq(s, 2, n - 2)
                  IN  \* q is the description with a backslash before each
                      \* double quote and backslash, and none elsewhere
                      /\ Len(q) = Len(d.Description)
                           + Cardinality({k \in 1..Len(d.Description) :
                                 d.Description[k] \in {"\"", "\\"}})
                      /\ \A k \in 1..Len(d.Description) :
                           LET e == Cardinality({j \in 1..k :
                                      d.Description[j] \in {"\"", "\\"}})
                           IN  /\ q[k + e] = d.Description[k]
                               /\ d.Description[k] \in {"\"", "\\"}
                                    => q[k + e - 1] = "\\"
               /\ \A i \in TestCaseOf(call[c][1]) :
                    Str(s) = testCases[i].expectedStr

\* C5's case: a description with a double quote and a backslash, an IPv6
\* address and a family, rendered.
C5_Witness ==
    \E c \in Callers :
        /\ Called(c) /\ str[c] # nil
        /\ lp[c][1].Description = <<"\"", "\\">>
        /\ Contains(lp[c][1].IP, ":") /\ lp[c][1].IPFamily = <<"6">>
        /\ Str(str[c][1]) = "\"\\\"\\\\\" ([2001:db8::1]:80/udp6)"

\* The caller's descriptor.
Desc(c) == lp[c][1]

\* The caller holds a handle it has not released.
Holds(c) == pc[c] = "open" /\ socket[c] # nil

\* Two descriptors name the same protocol, address, family and port.
SameKey(d1, d2) ==
    /\ d1.Protocol = d2.Protocol /\ d1.IP = d2.IP
    /\ d1.IPFamily = d2.IPFamily /\ d1.Port = d2.Port

\* Another caller holds a handle opened on the descriptor c has.
InUseByOther(c) ==
    \E d \in Callers \ {c} : Holds(d) /\ SameKey(Desc(d), Desc(c))

\* No socket of the descriptor's protocol is bound to port p.
PortFree(c, p) ==
    \A s \in os : ~(s.proto = Str(Desc(c).Protocol) /\ s.port = p)

\* C6 as stated: an open of an sctp descriptor returns no error and leaves
\* the socket table as it is, and the release of what it returned completes
\* ok, changing nothing.
C6_Original ==
    [][\A c \in Callers :
         /\ OpenLocalPort(c) /\ Desc(c).Protocol = sctp
              => pc'[c] = "open" /\ err'[c] = nil /\ os' = os
         /\ Close(c) /\ Desc(c).Protocol = sctp
              => pc'[c] = "ready" /\ err'[c] = nil /\ os' = os]_vars

\* C6 as amended: an open of an sctp descriptor returns no error, whatever
\* its address and port and whatever is bound, leaves the socket table as it
\* is, and returns no handle (a nil Closeable): nothing is held, the caller
\* has nothing to release and may let the descriptor go, and a Close called
\* on the nil value panics instead of completing.
C6_SctpIgnored ==
    /\ [][\A c \in Callers :
            /\ OpenLocalPort(c) /\ Desc(c).Protocol = sctp
                 => /\ pc'[c] = "open" /\ err'[c] = nil /\ socket'[c] = nil
                    /\ os' = os
            /\ Close(c) /\ Desc(c).Protocol = sctp
                 => pc'[c] = "panic" /\ os' = os
            /\ Drop(c) /\ pc[c] = "open" /\ Desc(c).Protocol = sctp
                 => pc'[c] = "start" /\ os' = os]_vars
    /\ [](\A c \in Callers :
            pc[c] = "open" /\ Desc(c).Protocol = sctp => socket[c] = nil)

\* C6's case: an sctp descriptor with an invalid address, family and port
\* was opened while a port was held, and Close was called on what it returned.
C6_Witness ==
    \E c \in Callers :
        /\ pc[c] = "panic"
        /\ Desc(c).Protocol = sctp /\ Desc(c).IP = notIP
        /\ Desc(c).Port = 70000
        /\ err[c] = nil
        /\ os # {}

\* C7: an open of a tcp or udp descriptor NewLocalPort returned, with a port
\* other than 0, while another caller holds a handle opened on the same
\* protocol, address, family and port, returns the address-in-use error and
\* no handle and binds nothing; once no socket of the protocol holds the port
\* any more, the open of a descriptor that was refused succeeds and returns
\* a bound handle.
C7_InUseThenFree ==
    [][\A c \in Callers :
         /\ OpenLocalPort(c) /\ Called(c) /\ Desc(c).Protocol \in {tcp, udp}
            /\ Desc(c).Port # 0 /\ InUseByOther(c)
              => /\ err'[c] = <<"bind: address already in use">>
                 /\ socket'[c] = nil /\ pc'[c] = "ready"
                 /\ os' = os
         /\ OpenLocalPort(c) /\ Called(c) /\ rejected[c]
            /\ Desc(c).Port # 0 /\ PortFree(c, Desc(c).Port)
              => /\ err'[c] = nil /\ pc'[c] = "open"
                 /\ socket'[c] # nil
                 /\ \E s \in os' : /\ s.fd = socket'[c][1]
                                   /\ s.port = Desc(c).Port
                                   /\ s.proto = Str(Desc(c).Protocol)]_vars

\* C7's case: a caller whose open was refused holds the port now, the other
\* caller, with the same descriptor, having released it.
C7_Witness ==
    \E c \in Callers : \E d \in Callers \ {c} :
        /\ Called(c) /\ rejected[c] /\ Holds(c)
        /\ Desc(c).Port # 0 /\ Desc(c).Protocol = tcp
        /\ pc[d] = "ready" /\ ~rejected[d] /\ err[d] = nil
        /\ lp[d] = lp[c]

\* The descriptor's address:port is free: its port is a port number, and no
\* socket of its protocol is bound to it or, for port 0, to one of the ports
\* the kernel chooses from.
FreeFor(c) ==
    /\ Desc(c).Port \in 0..65535
    /\ IF Desc(c).Port = 0 THEN \E p \in EphemeralPorts : PortFree(c, p)
       ELSE PortFree(c, Desc(c).Port)

\* The round trip last records is caller c's, and its socket is open.
InRoundTrip(c) == last # nil /\ last[1].who = c /\ ~last[1].done

\* C8 as stated: for every descriptor NewLocalPort returned whose
\* address:port is free, the open succeeds, and the release completes and
\* leaves the socket table as it was before the open.
C8_Original ==
    [][\A c \in Callers :
         /\ OpenLocalPort(c) /\ Called(c) /\ FreeFor(c)
              => err'[c] = nil /\ pc'[c] = "open"
         /\ Close(c) /\ Called(c) /\ InRoundTrip(c)
              => pc'[c] = "ready" /\ os' = last[1].before]_vars

\* Every socket of the table is held by exactly one caller.
NoLeak ==
    \A s \in os :
        \E c \in Callers :
            /\ Holds(c) /\ socket[c] = <<s.fd>>
            /\ \A d \in Callers \ {c} : socket[d] # socket[c]

\* After a round trip the socket table is the one before its open.
Restored == last # nil /\ last[1].done => os = last[1].before

\* C8 as amended: for a tcp or udp descriptor NewLocalPort returned whose
\* address:port is free, every open succeeds and returns a handle, the
\* release of that handle completes, and after it the socket table is the
\* one before the open, however often the sequence is repeated; no socket is
\* ever bound that no caller holds a handle for.  The open of an sctp
\* descriptor succeeds too and binds nothing, but returns no handle: there is
\* nothing to release, and a Close called on what it returned does not
\* complete.
C8_RoundTrip ==
    /\ []NoLeak
    /\ []Restored
    /\ [][\A c \in Callers :
            /\ OpenLocalPort(c) /\ Called(c) /\ Desc(c).Protocol \in {tcp, udp}
               /\ FreeFor(c)
                 => /\ err'[c] = nil /\ pc'[c] = "open" /\ socket'[c] # nil
                    /\ os' # os
            /\ OpenLocalPort(c) /\ Called(c) /\ Desc(c).Protocol = sctp
                 => /\ err'[c] = nil /\ pc'[c] = "open" /\ socket'[c] = nil
                    /\ os' = os
            /\ Close(c) /\ Holds(c)
                 => /\ pc'[c] = "ready" /\ err'[c] = nil /\ socket'[c] = nil
                    /\ InRoundTrip(c) => os' = last[1].before
            /\ Close(c) /\ ~Holds(c)
                 => pc'[c] = "panic" /\ os' = os]_vars

\* C8's case: a caller has made the round trip of a udp descriptor twice in
\* a row while the other caller held a port, and the table is as before.
C8_Witness ==
    /\ last # nil /\ last[1].done /\ last[1].rounds >= 2
    /\ last[1].lp.Protocol = udp /\ last[1].lp.Port = 8080
    /\ os = last[1].before /\ os # {}
    /\ pc[last[1].who] = "ready"

\* At most one caller holds a handle on a protocol, address, family and
\* port other than 0, no two callers hold the same socket, and every handle
\* held is a socket of the table.
AtMostOne ==
    \A c \in Callers :
        Holds(c)
        => /\ \E s \in os : s.fd = socket[c][1]
           /\ \A d \in Callers \ {c} :
                Holds(d)
                => /\ socket[d] # socket[c]
                   /\ ~(/\ SameKey(Desc(c), Desc(d))
                        /\ Desc(c).Protocol \in {tcp, udp}
                        /\ Desc(c).Port # 0)

\* C9: in every interleaving of the callers' opens and releases, at most one
\* caller holds a handle on a tcp or udp protocol, address, family and port
\* other than 0; while one holds it, every other open of it returns an error
\* and no handle; and an open changes only the socket table and what the
\* opening caller got back.
C9_Exclusive ==
    /\ []AtMostOne
    /\ [][\A c \in Callers :
            /\ OpenLocalPort(c) /\ Desc(c).Protocol \in {tcp, udp}
               /\ Desc(c).Port # 0 /\ InUseByOther(c)
                 => err'[c] # nil /\ socket'[c] = nil /\ pc'[c] # "open"
            /\ OpenLocalPort(c)
                 => \A d \in Callers \ {c} :
                      /\ pc'[d] = pc[d] /\ lp'[d] = lp[d]
                      /\ socket'[d] = socket[d] /\ err'[d] = err[d]]_vars

\* C9's case: one caller holds a udp port and the other caller's open of the
\* same descriptor has been refused.
C9_Witness ==
    \E c \in Callers : \E d \in Callers \ {c} :
        /\ Holds(d) /\ pc[c] = "ready"
        /\ SameKey(Desc(c), Desc(d))
        /\ Desc(c).Protocol = udp /\ Desc(c).Port # 0
        /\ err[c] = <<"bind: address already in use">>

\* The error of openLocalPort's default case for descriptor d.
UnknownProtocol(d) == <<"unknown protocol \"" \o Str(d.Protocol) \o "\"">>

\* C10: an open returns the unknown-protocol error exactly when the
\* descriptor's protocol is not tcp, udp or sctp, and then returns no handle
\* and binds nothing; a descriptor NewLocalPort returned has a supported
\* protocol, so its open never returns that error, which only a descriptor
\* made without NewLocalPort can get.
C10_UnknownProtocol ==
    /\ [][\A c \in Callers :
            OpenLocalPort(c)
            => /\ err'[c] = UnknownProtocol(Desc(c))
                    <=> Desc(c).Protocol \notin Supported
               /\ Desc(c).Protocol \notin Supported
                    => socket'[c] = nil /\ pc'[c] = "ready" /\ os' = os]_vars
    /\ [](\A c \in Callers :
            /\ Called(c) /\ lp[c] # nil => Desc(c).Protocol \in Supported
            /\ lp[c] # nil /\ err[c] = UnknownProtocol(Desc(c)) => ~Called(c))

\* C10's case: the open of a struct literal with protocol "http" has returned
\* the unknown-protocol error.
C10_Witness ==
    \E c \in Callers :
        /\ ~Called(c) /\ lp[c] # nil
        /\ pc[c] = "ready"
        /\ err[c] = <<"unknown protocol \"http\"">>

=============================================================================
